---- MODULE Spec2Model ----
(***************************************************************************)
(* A model of the payment orchestration layer (src/src/stripe): the        *)
(* StripeService operations and the StripeController webhook dispatcher,   *)
(* run against a model of the remote payment platform.                     *)
(*                                                                         *)
(* Every `await this.stripeClient...` of the source is one step of the     *)
(* request that makes it; steps of different requests interleave freely.   *)
(* The platform is the environment: each remote call may succeed or fail.  *)
(***************************************************************************)
EXTENDS Integers, Sequences, FiniteSets, TLC

None == "undefined"

(***************************************************************************)
(* Bounds of the model.                                                    *)
(***************************************************************************)
NumReqs == 2          \* concurrent attach-payment requests

Customers == {"cus_A", "cus_B"}
PMs == {"pm_1", "pm_2"}
Reqs == 1..NumReqs

NumEscrowReqs == 3    \* requests to the escrow handlers
EReqs == 1..NumEscrowReqs

(***************************************************************************)
(* Messages of the BadRequestException the service and controller throw.   *)
(***************************************************************************)
MsgAlreadyAttached == "Cette methode de paiement est deja attachee au client."
MsgAttachFailed == "Erreur lors de l'attachement de la methode de paiement."
MsgNoInstrument == "Aucun moyen de paiement attache au client."
MsgDeclined == "Paiement echoue : "
MsgChargeFailed == "Erreur lors du prelevement Stripe"
MsgSubscriptionFailed == "Impossible de creer l'abonnement Stripe"
MsgSignature == "Signature invalide : "

VARIABLES
    \* the platform: cards attached to each customer, default invoicing card
    cards, defaultPM,
    \* attachPaymentMethod requests: position, arguments, locals, outcome
    apc, aargs, existingPMs, aout,
    \* history: remote calls each request issued, requests finished before
    \* each request started, attach calls issued for an attached instrument
    \* and what each request's try block threw
    acalls, finishedBefore, dupAttach, athrown,
    \* chargeCustomer: position, arguments (customerId, amountInCents),
    \* pms.data of the listing, the error the catch block received, outcome
    cpc, cargs, pmsData, cerr, cout,
    \* history: remote calls issued; the platform's PaymentIntents
    ccalls, intents,
    \* createSubscription: position, arguments, Date.now() as read, the
    \* params sent to subscriptions.create, the platform's answer, outcome
    spc, sargs, snow, sparams, splatform, sout,
    \* handleWebhook: position, the request (rawBody, stripe-signature),
    \* STRIPE_WEBHOOK_SECRET, the constructed event, logger lines, response
    wpc, wreq, wsecret, wevent, wlog, wout,
    \* the pagination loops: operation, position, the platform's collection,
    \* arguments, loop locals, accumulators, Date.now() as read, result
    gop, gpc, coll, gargs, hasMore, startingAfter, totalAmount, allCustomers,
    count, gnow, gout,
    \* history: cursors requested, pages received, requests outstanding
    requests, pages, inflight,
    \* getPaymentStats: position, the platform's PaymentIntents page and the
    \* charges of each, loop index, refundedIntents, result
    ppc, payments, chargesOf, pidx, refundedIntents, pout,
    \* getStripeAccountStatus: the platform's connected account, position,
    \* the account id asked for, the error the catch block received, result
    account, kpc, kid, kerr, kout,
    \* transferToConnectedAccount: position, arguments (stripeAccountId,
    \* amountInCents), the error the catch block received, result, the
    \* platform's transfers, requests served
    tpc, targs, terr, tout, transfers, tdone,
    \* the escrow handlers (initiate-service-payment, initiate-delivery-payment,
    \* capture-delivery-payment): the platform's manual-capture PaymentIntents,
    \* and of each request its position, the request, the response and the
    \* remote calls it issued
    escrow, epc, ereq, eout, ecalls,
    \* createPriceForPlan: position, arguments (planName, planPrice), the
    \* platform's products and prices, outcome
    vpc, vargs, products, prices, vout,
    \* history: the remote calls of each invocation, in the order they were
    \* issued, each with its answer once it has one
    rlog

attachLocal == <<defaultPM, apc, aargs, existingPMs, aout, acalls,
                 finishedBefore, dupAttach, athrown>>
attachVars == <<cards, attachLocal>>
chargeVars == <<cpc, cargs, pmsData, cerr, cout, ccalls, intents>>
subVars == <<spc, sargs, snow, sparams, splatform, sout>>
hookVars == <<wpc, wreq, wsecret, wevent, wlog, wout>>
pageVars == <<gop, gpc, coll, gargs, hasMore, startingAfter, totalAmount,
              allCustomers, count, gnow, gout, requests, pages, inflight>>
statVars == <<ppc, payments, chargesOf, pidx, refundedIntents, pout>>

accountVars == <<account, kpc, kid, kerr, kout>>
transferVars == <<tpc, targs, terr, tout, transfers, tdone>>

coreVars == <<attachVars, chargeVars, subVars, hookVars, pageVars, statVars>>
connectVars == <<accountVars, transferVars>>
escrowVars == <<escrow, epc, ereq, eout, ecalls>>
priceVars == <<vpc, vargs, products, prices, vout>>
laterVars == <<connectVars, escrowVars, priceVars>>

vars == <<coreVars, laterVars, rlog>>

\* what the actions of each part leave alone
attachFrame == <<chargeVars, subVars, hookVars, pageVars, statVars,
                laterVars>>
chargeFrame == <<cards, attachLocal, subVars, hookVars, pageVars, statVars,
                laterVars>>
subFrame == <<attachVars, chargeVars, hookVars, pageVars, statVars,
                laterVars, rlog>>
hookFrame == <<attachVars, chargeVars, subVars, pageVars, statVars,
                laterVars, rlog>>
pageFrame == <<attachVars, chargeVars, subVars, hookVars, statVars,
                laterVars>>
statFrame == <<attachVars, chargeVars, subVars, hookVars, pageVars,
                laterVars>>

accountFrame == <<coreVars, transferVars, escrowVars, priceVars, rlog>>
transferFrame == <<coreVars, accountVars, escrowVars, priceVars, rlog>>
escrowFrame == <<coreVars, connectVars, priceVars, rlog>>
priceFrame == <<coreVars, connectVars, escrowVars>>

(***************************************************************************)
(* The state of each part before any request for it has arrived.           *)
(***************************************************************************)
NoErr == [api |-> None, code |-> None]
NoOutcome == [status |-> "pending", message |-> None]
NoDate == [kind |-> "absent", ms |-> 0]
NoTrial == [present |-> FALSE, unixTs |-> 0]
NoPlatform == [c \in Customers |-> {}]

IdleAttach ==
    /\ defaultPM = [c \in Customers |-> None]
    /\ apc = [r \in Reqs |-> "idle"]
    /\ aargs = [r \in Reqs |-> <<None, None>>]
    /\ existingPMs = [r \in Reqs |-> {}]
    /\ aout = [r \in Reqs |-> None]
    /\ acalls = [r \in Reqs |-> <<>>]
    /\ finishedBefore = [r \in Reqs |-> {}]
    /\ dupAttach = FALSE
    /\ athrown = [r \in Reqs |-> None]

IdleCharge ==
    /\ cpc = "idle"
    /\ cargs = <<None, 0>>
    /\ pmsData = <<>>
    /\ cerr = NoErr
    /\ cout = [status |-> "pending", message |-> None, paymentIntentId |-> <<"pi", 0>>]
    /\ ccalls = <<>>
    /\ intents = <<>>

IdleSub ==
    /\ spc = "idle"
    /\ sargs = [customerId |-> None, priceId |-> None, startDate |-> NoDate]
    /\ snow = 0
    /\ sparams = [customer |-> None, price |-> None, trial_end |-> NoTrial]
    /\ splatform = "none"
    /\ sout = NoOutcome

IdleHook ==
    /\ wpc = "idle"
    /\ wreq = <<>>
    /\ wsecret = None
    /\ wevent = None
    /\ wlog = <<>>
    /\ wout = [status |-> 0, body |-> None]

IdlePage ==
    /\ gop = "none"
    /\ gpc = "idle"
    /\ coll = <<>>
    /\ gargs = [startDate |-> 0, endDate |-> 0]
    /\ hasMore = TRUE
    /\ startingAfter = 0
    /\ totalAmount = 0
    /\ allCustomers = <<>>
    /\ count = 0
    /\ gnow = 0
    /\ gout = [status |-> "pending"]
    /\ requests = <<>>
    /\ pages = <<>>
    /\ inflight = 0

IdleStat ==
    /\ ppc = "idle"
    /\ payments = <<>>
    /\ chargesOf = <<>>
    /\ pidx = 0
    /\ refundedIntents = {}
    /\ pout = [status |-> "pending", successRate |-> [num |-> 0, den |-> 1],
               averageValue |-> [num |-> 0, den |-> 1],
               refundRate |-> [num |-> 0, den |-> 1], byMethod |-> <<>>]

NoAccount == [details_submitted |-> FALSE, charges_enabled |-> FALSE,
              payouts_enabled |-> FALSE,
              requirements |-> [present |-> FALSE, due |-> FALSE, currently_due |-> <<>>]]

IdleAccount ==
    /\ account = NoAccount
    /\ kpc = "idle"
    /\ kid = None
    /\ kerr = None
    /\ kout = [status |-> "pending", isValid |-> FALSE, isEnabled |-> FALSE,
               needsIdCard |-> FALSE]

IdleTransfer ==
    /\ tpc = "idle"
    /\ targs = [stripeAccountId |-> None, amountInCents |-> 0]
    /\ terr = None
    /\ tout = [status |-> "pending", id |-> None, amount |-> 0, destination |-> None]
    /\ transfers = <<>>
    /\ tdone = 0

IdleConnect == IdleAccount /\ IdleTransfer

NoAmount == [given |-> FALSE, n |-> 0]
NoBody == [customerId |-> None, amount |-> NoAmount, currency |-> None,
           providerAccountId |-> None, delivererAccountId |-> None,
           serviceId |-> None, paymentIntentId |-> None]
NoRequest == [handler |-> None, method |-> None, body |-> NoBody]
NoResponse == [status |-> 0, body |-> None]

NoCalls == [r \in Reqs |-> <<>>]

IdlePrice ==
    /\ vpc = "idle"
    /\ vargs = [planName |-> None, planPrice |-> 0]
    /\ products = <<>>
    /\ prices = <<>>
    /\ vout = NoOutcome

IdleEscrow ==
    /\ escrow = <<>>
    /\ epc = [r \in EReqs |-> "idle"]
    /\ ereq = [r \in EReqs |-> NoRequest]
    /\ eout = [r \in EReqs |-> NoResponse]
    /\ ecalls = [r \in EReqs |-> <<>>]

(***************************************************************************)
(* The log of remote calls: a call is entered when it is issued (the       *)
(* `await this.stripeClient...` is reached) and marked when it is answered.*)
(***************************************************************************)
Issue(log, call, arg) == Append(log, [call |-> call, arg |-> arg, result |-> "pending"])
Answer(log, result) == [log EXCEPT ![Len(log)].result = result]

(***************************************************************************)
(* paymentMethods.list({customer, type: 'card', limit: 100}): one page of  *)
(* at most ListLimit of the customer's cards.                              *)
(***************************************************************************)
ListLimit == 100

ListCards(c) ==
    IF Cardinality(cards[c]) <= ListLimit THEN {cards[c]}
    ELSE {s \in SUBSET cards[c] : Cardinality(s) = ListLimit}

\* existingPMs.data.some(pm => pm.id === paymentMethodId)
AlreadyAttached(existing, pm) == pm \in existing

\* the catch block of attachPaymentMethod: whatever was thrown inside the
\* try, the inner BadRequestException included, is replaced by one message
AttachCatch(err) == MsgAttachFailed

InitAttach ==
    /\ IdlePrice /\ rlog = NoCalls
    /\ IdleCharge /\ IdleSub /\ IdleHook /\ IdlePage /\ IdleStat
    /\ IdleConnect /\ IdleEscrow
    /\ cards \in [Customers -> SUBSET PMs]
    /\ \A c1, c2 \in Customers : c1 # c2 => cards[c1] \cap cards[c2] = {}
    /\ defaultPM \in [Customers -> PMs \cup {None}]
    /\ \A c \in Customers : defaultPM[c] \in cards[c] \cup {None}
    /\ apc = [r \in Reqs |-> "idle"]
    /\ aargs = [r \in Reqs |-> <<None, None>>]
    /\ existingPMs = [r \in Reqs |-> {}]
    /\ aout = [r \in Reqs |-> None]
    /\ acalls = [r \in Reqs |-> <<>>]
    /\ finishedBefore = [r \in Reqs |-> {}]
    /\ dupAttach = FALSE
    /\ athrown = [r \in Reqs |-> None]

\* POST customers/:id/attach-payment arrives
AttachStart(r) ==
    /\ apc[r] = "idle"
    /\ \E c \in Customers, p \in PMs : aargs' = [aargs EXCEPT ![r] = <<c, p>>]
    /\ apc' = [apc EXCEPT ![r] = "list"]
    /\ finishedBefore' = [finishedBefore EXCEPT ![r] = {q \in Reqs : apc[q] = "done"}]
    /\ UNCHANGED <<cards, defaultPM, existingPMs, aout, acalls, dupAttach, athrown>>
    /\ rlog' = [rlog EXCEPT ![r] = Issue(@, "paymentMethods.list", 0)]
    /\ UNCHANGED attachFrame

\* 1) paymentMethods.list answers
AttachList(r) ==
    /\ apc[r] = "list"
    /\ \E page \in ListCards(aargs[r][1]) :
         existingPMs' = [existingPMs EXCEPT ![r] = page]
    /\ acalls' = [acalls EXCEPT ![r] = Append(@, "list")]
    /\ apc' = [apc EXCEPT ![r] = "check"]
    /\ UNCHANGED <<cards, defaultPM, aargs, aout, finishedBefore, dupAttach, athrown>>
    /\ rlog' = [rlog EXCEPT ![r] =
                    IF AlreadyAttached(existingPMs'[r], aargs[r][2]) THEN Answer(@, "ok")
                    ELSE Issue(Answer(@, "ok"), "paymentMethods.attach", 0)]
    /\ UNCHANGED attachFrame

\* 1) paymentMethods.list fails: caught, rethrown
AttachListFail(r) ==
    /\ apc[r] = "list"
    /\ acalls' = [acalls EXCEPT ![r] = Append(@, "list")]
    /\ athrown' = [athrown EXCEPT ![r] = "platform"]
    /\ aout' = [aout EXCEPT ![r] = AttachCatch("platform")]
    /\ apc' = [apc EXCEPT ![r] = "done"]
    /\ UNCHANGED <<cards, defaultPM, aargs, existingPMs, finishedBefore, dupAttach>>
    /\ rlog' = [rlog EXCEPT ![r] = Answer(@, "failed")]
    /\ UNCHANGED attachFrame

\* if (alreadyAttached) throw new BadRequestException(...): caught, rethrown
AttachConflict(r) ==
    /\ apc[r] = "check"
    /\ AlreadyAttached(existingPMs[r], aargs[r][2])
    /\ athrown' = [athrown EXCEPT ![r] = MsgAlreadyAttached]
    /\ aout' = [aout EXCEPT ![r] = AttachCatch(MsgAlreadyAttached)]
    /\ apc' = [apc EXCEPT ![r] = "done"]
    /\ UNCHANGED <<cards, defaultPM, aargs, existingPMs, acalls, finishedBefore, dupAttach>>
    /\ UNCHANGED rlog
    /\ UNCHANGED attachFrame

\* 2) paymentMethods.attach succeeds on the platform
AttachAttach(r) ==
    /\ apc[r] = "check"
    /\ ~AlreadyAttached(existingPMs[r], aargs[r][2])
    /\ \A c \in Customers \ {aargs[r][1]} : aargs[r][2] \notin cards[c]
    /\ acalls' = [acalls EXCEPT ![r] = Append(@, "attach")]
    /\ dupAttach' = (dupAttach \/ aargs[r][2] \in cards[aargs[r][1]])
    /\ cards' = [cards EXCEPT ![aargs[r][1]] = @ \cup {aargs[r][2]}]
    /\ apc' = [apc EXCEPT ![r] = "update"]
    /\ UNCHANGED <<defaultPM, aargs, existingPMs, aout, finishedBefore, athrown>>
    /\ rlog' = [rlog EXCEPT ![r] = Issue(Answer(@, "ok"), "customers.update", 0)]
    /\ UNCHANGED attachFrame

\* 2) paymentMethods.attach fails: caught, rethrown
AttachAttachFail(r) ==
    /\ apc[r] = "check"
    /\ ~AlreadyAttached(existingPMs[r], aargs[r][2])
    /\ acalls' = [acalls EXCEPT ![r] = Append(@, "attach")]
    /\ dupAttach' = (dupAttach \/ aargs[r][2] \in cards[aargs[r][1]])
    /\ athrown' = [athrown EXCEPT ![r] = "platform"]
    /\ aout' = [aout EXCEPT ![r] = AttachCatch("platform")]
    /\ apc' = [apc EXCEPT ![r] = "done"]
    /\ UNCHANGED <<cards, defaultPM, aargs, existingPMs, finishedBefore>>
    /\ rlog' = [rlog EXCEPT ![r] = Answer(@, "failed")]
    /\ UNCHANGED attachFrame

\* 3) customers.update sets invoice_settings.default_payment_method; the
\* controller then answers {success: true}
AttachSetDefault(r) ==
    /\ apc[r] = "update"
    /\ acalls' = [acalls EXCEPT ![r] = Append(@, "update")]
    /\ defaultPM' = [defaultPM EXCEPT ![aargs[r][1]] = aargs[r][2]]
    /\ aout' = [aout EXCEPT ![r] = "success"]
    /\ apc' = [apc EXCEPT ![r] = "done"]
    /\ UNCHANGED <<cards, aargs, existingPMs, finishedBefore, dupAttach, athrown>>
    /\ rlog' = [rlog EXCEPT ![r] = Answer(@, "ok")]
    /\ UNCHANGED attachFrame

AttachSetDefaultFailDetach(r) ==
    /\ apc[r] = "update"
    /\ acalls' = [acalls EXCEPT ![r] = @ \o <<"update", "detach">>]
    /\ cards' = [cards EXCEPT ![aargs[r][1]] = @ \ {aargs[r][2]}]
    /\ athrown' = [athrown EXCEPT ![r] = "platform"]
    /\ aout' = [aout EXCEPT ![r] = AttachCatch("platform")]
    /\ apc' = [apc EXCEPT ![r] = "done"]
    /\ UNCHANGED <<defaultPM, aargs, existingPMs, finishedBefore, dupAttach>>
    /\ rlog' = [rlog EXCEPT ![r] = Issue(Answer(@, "failed"), "paymentMethods.detach", 0)]
    /\ UNCHANGED attachFrame

\* 3) customers.update fails: caught, rethrown; nothing is detached
AttachSetDefaultFail(r) ==
    /\ apc[r] = "update"
    /\ acalls' = [acalls EXCEPT ![r] = Append(@, "update")]
    /\ athrown' = [athrown EXCEPT ![r] = "platform"]
    /\ aout' = [aout EXCEPT ![r] = AttachCatch("platform")]
    /\ apc' = [apc EXCEPT ![r] = "done"]
    /\ UNCHANGED <<cards, defaultPM, aargs, existingPMs, finishedBefore, dupAttach>>
    /\ rlog' = [rlog EXCEPT ![r] = Answer(@, "failed")]
    /\ UNCHANGED attachFrame

NextAttach ==
    \E r \in Reqs :
        \/ AttachStart(r)
        \/ AttachList(r)
        \/ AttachListFail(r)
        \/ AttachConflict(r)
        \/ AttachAttach(r)
        \/ AttachAttachFail(r)
        \/ AttachSetDefault(r)
        \/ AttachSetDefaultFail(r)

(***************************************************************************)
(* chargeCustomer: one off-session charge request at a time.               *)
(***************************************************************************)
Amounts == {0, 1999}

\* error codes the platform answers a listing with, and a confirmed
\* off-session PaymentIntent with (card errors come from the charge alone);
\* None is an error without a code (a network failure)
ListErrorCodes == {"rate_limit", "resource_missing", None}
ChargeErrorCodes == {"authentication_required", "card_declined", "expired_card",
                     "amount_too_small", "rate_limit", None}

ChargeCatchDeclinedOnly(err) ==
    IF err.code = "card_declined" THEN MsgDeclined ELSE MsgChargeFailed

\* the catch block of chargeCustomer
ChargeCatch(err) ==
    IF err.code = "authentication_required" \/ err.code = "card_declined"
    THEN MsgDeclined
    ELSE MsgChargeFailed

\* paymentMethods.list({customer, type: 'card', limit: 1}).data: the first
\* card in the platform's order, if the customer has one
FirstCard(c) == IF cards[c] = {} THEN {<<>>} ELSE {<<p>> : p \in cards[c]}

IntentId(n) == <<"pi", n>>

InitCharge ==
    /\ IdlePrice /\ rlog = NoCalls
    /\ IdleAttach /\ IdleSub /\ IdleHook /\ IdlePage /\ IdleStat
    /\ IdleConnect /\ IdleEscrow
    /\ cards \in [Customers -> SUBSET PMs]
    /\ \A c1, c2 \in Customers : c1 # c2 => cards[c1] \cap cards[c2] = {}
    /\ IdleCharge

\* POST charge arrives
ChargeStart ==
    /\ cpc = "idle"
    /\ \E c \in Customers, a \in Amounts : cargs' = <<c, a>>
    /\ cpc' = "list"
    /\ UNCHANGED <<pmsData, cerr, cout, ccalls, intents>>
    /\ rlog' = [rlog EXCEPT ![1] = Issue(@, "paymentMethods.list", 0)]
    /\ UNCHANGED chargeFrame

\* 1) paymentMethods.list answers; with no card the service throws
\* BadRequestException('Aucun moyen de paiement...') inside its own try
ChargeList ==
    /\ cpc = "list"
    /\ ccalls' = Append(ccalls, "list")
    /\ \E data \in FirstCard(cargs[1]) :
         /\ pmsData' = data
         /\ IF Len(data) = 0
            THEN /\ cerr' = [api |-> "service", code |-> None]
                 /\ cout' = [cout EXCEPT !.status = "error",
                                          !.message = ChargeCatch([api |-> "service", code |-> None])]
                 /\ cpc' = "done"
            ELSE /\ cpc' = "create"
                 /\ UNCHANGED <<cerr, cout>>
    /\ UNCHANGED <<cargs, intents>>
    /\ rlog' = [rlog EXCEPT ![1] =
                    IF Len(pmsData') = 0 THEN Answer(@, "ok")
                    ELSE Issue(Answer(@, "ok"), "paymentIntents.create", 0)]
    /\ UNCHANGED chargeFrame

\* 1) paymentMethods.list fails
ChargeListFail ==
    /\ cpc = "list"
    /\ ccalls' = Append(ccalls, "list")
    /\ \E code \in ListErrorCodes :
         /\ cerr' = [api |-> "list", code |-> code]
         /\ cout' = [cout EXCEPT !.status = "error",
                                  !.message = ChargeCatch([api |-> "list", code |-> code])]
    /\ cpc' = "done"
    /\ UNCHANGED <<cargs, pmsData, intents>>
    /\ rlog' = [rlog EXCEPT ![1] = Answer(@, "failed")]
    /\ UNCHANGED chargeFrame

\* 2) paymentIntents.create (confirm, off_session) succeeds
ChargeCreate ==
    /\ cpc = "create"
    /\ ccalls' = Append(ccalls, "create")
    /\ intents' = Append(intents, [id |-> IntentId(Len(intents) + 1),
                                   customer |-> cargs[1],
                                   amount |-> cargs[2],
                                   payment_method |-> pmsData[1]])
    /\ cout' = [cout EXCEPT !.status = "ok",
                             !.paymentIntentId = IntentId(Len(intents) + 1)]
    /\ cpc' = "done"
    /\ UNCHANGED <<cargs, pmsData, cerr>>
    /\ rlog' = [rlog EXCEPT ![1] = Answer(@, "ok")]
    /\ UNCHANGED chargeFrame

\* 2) paymentIntents.create fails
ChargeCreateFail ==
    /\ cpc = "create"
    /\ ccalls' = Append(ccalls, "create")
    /\ \E code \in ChargeErrorCodes :
         /\ cerr' = [api |-> "create", code |-> code]
         /\ cout' = [cout EXCEPT !.status = "error",
                                  !.message = ChargeCatch([api |-> "create", code |-> code])]
    /\ cpc' = "done"
    /\ UNCHANGED <<cargs, pmsData, intents>>
    /\ rlog' = [rlog EXCEPT ![1] = Answer(@, "failed")]
    /\ UNCHANGED chargeFrame

NextCharge ==
    \/ ChargeStart
    \/ ChargeList
    \/ ChargeListFail
    \/ ChargeCreate
    \/ ChargeCreateFail

(***************************************************************************)
(* createSubscription: POST subscriptions.  Times are in milliseconds, as  *)
(* Date.getTime() and Date.now() give them.                                *)
(***************************************************************************)
MaxSec == 3           \* the horizon of the clock, in seconds
MsPerSec == 1000

Instants == {t \in 0..(MaxSec * MsPerSec) : t % MsPerSec \in {0, 1, 500, 999}}

\* body.startDate as the controller receives it: absent, the empty string,
\* a string that is no date, or a date string (by its instant)
BodyStartDates ==
    {[kind |-> "absent", ms |-> 0], [kind |-> "empty", ms |-> 0],
     [kind |-> "garbage", ms |-> 0]}
    \cup {[kind |-> "date", ms |-> t] : t \in Instants}

\* body.startDate ? new Date(body.startDate) : undefined
startDateObj(b) ==
    CASE b.kind \in {"absent", "empty"} -> NoDate
      [] b.kind = "garbage" -> [kind |-> "invalid", ms |-> 0]
      [] OTHER -> [kind |-> "date", ms |-> b.ms]

TrialEndNotBefore(startDate, now) ==
    IF startDate.kind = "date" /\ startDate.ms >= now
    THEN [present |-> TRUE, unixTs |-> startDate.ms \div MsPerSec]
    ELSE NoTrial

\* if (startDate && startDate.getTime() > Date.now())
\*   params.trial_end = Math.floor(startDate.getTime() / 1000)
\* (getTime() of an invalid Date is NaN, and NaN > x is false)
TrialEnd(startDate, now) ==
    IF startDate.kind = "date" /\ startDate.ms > now
    THEN [present |-> TRUE, unixTs |-> startDate.ms \div MsPerSec]
    ELSE NoTrial

InitSub ==
    /\ IdlePrice /\ rlog = NoCalls
    /\ IdleAttach /\ IdleCharge /\ IdleHook /\ IdlePage /\ IdleStat
    /\ IdleConnect /\ IdleEscrow
    /\ cards = NoPlatform
    /\ IdleSub

\* the request arrives; the service builds params and calls
\* subscriptions.create(params)
SubStart ==
    /\ spc = "idle"
    /\ \E c \in Customers, b \in BodyStartDates, now \in Instants :
         /\ sargs' = [customerId |-> c, priceId |-> "price_1",
                      startDate |-> startDateObj(b)]
         /\ snow' = now
         /\ sparams' = [customer |-> c, price |-> "price_1",
                        trial_end |-> TrialEnd(startDateObj(b), now)]
    /\ spc' = "create"
    /\ UNCHANGED <<splatform, sout>>
    /\ UNCHANGED subFrame

\* subscriptions.create succeeds
SubCreate ==
    /\ spc = "create"
    /\ splatform' = "accepted"
    /\ sout' = [status |-> "ok", message |-> None]
    /\ spc' = "done"
    /\ UNCHANGED <<sargs, snow, sparams>>
    /\ UNCHANGED subFrame

\* subscriptions.create fails: caught, rethrown
SubCreateFail ==
    /\ spc = "create"
    /\ splatform' = "rejected"
    /\ sout' = [status |-> "error", message |-> MsgSubscriptionFailed]
    /\ spc' = "done"
    /\ UNCHANGED <<sargs, snow, sparams>>
    /\ UNCHANGED subFrame

NextSub ==
    \/ SubStart
    \/ SubCreate
    \/ SubCreateFail

(***************************************************************************)
(* handleWebhook: POST webhook.  webhooks.constructEvent recomputes the    *)
(* signature of `${t}.${rawBody}` under the secret and compares it with    *)
(* the v1 of the stripe-signature header; it throws on a malformed header, *)
(* a mismatch, a timestamp outside the tolerance or a missing secret.      *)
(***************************************************************************)
EventTypes == {"invoice.payment_succeeded", "payment_intent.succeeded",
               "charge.refunded", "customer.created", "payout.paid"}
Secrets == {"whsec_live", "whsec_other"}
Timestamps == {"fresh", "stale"}

\* the signature of a payload: an ideal MAC, equal only on equal inputs
ComputeSignature(secret, t, body) == <<secret, t, body>>

Headers ==
    {[wellFormed |-> FALSE, t |-> "fresh", v1 |-> <<>>]}
    \cup {[wellFormed |-> TRUE, t |-> t, v1 |-> ComputeSignature(k, t2, b)] :
            t \in Timestamps, k \in Secrets, t2 \in Timestamps, b \in EventTypes}

SignatureMatches(body, sig, secret) ==
    /\ sig.wellFormed
    /\ sig.v1 = ComputeSignature(secret, sig.t, body)

constructEvent(body, sig, secret) ==
    IF secret # None /\ SignatureMatches(body, sig, secret) /\ sig.t = "fresh"
    THEN [ok |-> TRUE, type |-> body]
    ELSE [ok |-> FALSE, type |-> None]

VerifyEventUnchecked(body, sig, secret) == [ok |-> TRUE, type |-> body]

\* try { event = constructEvent(rawBody, sig, secret) }
\* catch (err) { throw new BadRequestException(`Signature invalide : ...`) }
VerifyEvent(body, sig, secret) == constructEvent(body, sig, secret)

LogInvoice == "Invoice payee : traiter..."
LogPayment == "Paiement reussi : traiter..."
LogRefund == "Charge remboursee : traitement..."
LogUnhandled == "Evenement non gere"
HandlerLogs == {LogInvoice, LogPayment, LogRefund}

DispatchRejectsUnknown(type) ==
    CASE type = "invoice.payment_succeeded" -> [log |-> LogInvoice, ok |-> TRUE]
      [] type = "payment_intent.succeeded" -> [log |-> LogPayment, ok |-> TRUE]
      [] type = "charge.refunded" -> [log |-> LogRefund, ok |-> TRUE]
      [] OTHER -> [log |-> LogUnhandled, ok |-> FALSE]

\* switch (event.type): the line each branch logs; every branch falls out
\* of the switch to `return { received: true }`
Dispatch(type) ==
    CASE type = "invoice.payment_succeeded" -> [log |-> LogInvoice, ok |-> TRUE]
      [] type = "payment_intent.succeeded" -> [log |-> LogPayment, ok |-> TRUE]
      [] type = "charge.refunded" -> [log |-> LogRefund, ok |-> TRUE]
      [] OTHER -> [log |-> LogUnhandled, ok |-> TRUE]

InitHook ==
    /\ IdlePrice /\ rlog = NoCalls
    /\ IdleAttach /\ IdleCharge /\ IdleSub /\ IdlePage /\ IdleStat
    /\ IdleConnect /\ IdleEscrow
    /\ cards = NoPlatform
    /\ wpc = "idle"
    /\ wreq = <<>>
    /\ wsecret \in {"whsec_live", None}
    /\ wevent = None
    /\ wlog = <<>>
    /\ wout = [status |-> 0, body |-> None]

\* a request arrives: Unverified
WebhookArrive ==
    /\ wpc = "idle"
    /\ \E b \in EventTypes, h \in Headers : wreq' = <<[rawBody |-> b, sig |-> h]>>
    /\ wpc' = "unverified"
    /\ UNCHANGED <<wsecret, wevent, wlog, wout>>
    /\ UNCHANGED hookFrame

\* the try block: Verified, or Rejected with a 400
WebhookVerify ==
    /\ wpc = "unverified"
    /\ LET ev == VerifyEvent(wreq[1].rawBody, wreq[1].sig, wsecret) IN
         IF ev.ok
         THEN /\ wevent' = ev.type
              /\ wpc' = "verified"
              /\ UNCHANGED wout
         ELSE /\ wout' = [status |-> 400, body |-> MsgSignature]
              /\ wpc' = "rejected"
              /\ UNCHANGED wevent
    /\ UNCHANGED <<wreq, wsecret, wlog>>
    /\ UNCHANGED hookFrame

\* the switch and the return
WebhookDispatch ==
    /\ wpc = "verified"
    /\ wlog' = Append(wlog, Dispatch(wevent).log)
    /\ wout' = IF Dispatch(wevent).ok
               THEN [status |-> 200, body |-> "received"]
               ELSE [status |-> 400, body |-> LogUnhandled]
    /\ wpc' = "acked"
    /\ UNCHANGED <<wreq, wsecret, wevent>>
    /\ UNCHANGED hookFrame

NextHook ==
    \/ WebhookArrive
    \/ WebhookVerify
    \/ WebhookDispatch

(***************************************************************************)
(* The pagination loops of getTotalRevenue, getCustomerStats and           *)
(* getActiveSubscribers.  An item's id is its place in the platform's      *)
(* collection; the cursor 0 is `undefined` (no starting_after).            *)
(***************************************************************************)
MaxItems == 3         \* items in the platform's collection
PageLimit == 100

Ops == {"getTotalRevenue", "getCustomerStats", "getActiveSubscribers"}

\* charges, by what getTotalRevenue reads of them
ChargeKinds ==
    {[created |-> 10, paid |-> TRUE, refunded |-> FALSE, amount |-> 150, status |-> "-"],
     [created |-> 20, paid |-> TRUE, refunded |-> FALSE, amount |-> 1999, status |-> "-"],
     [created |-> 20, paid |-> TRUE, refunded |-> TRUE, amount |-> 500, status |-> "-"],
     [created |-> 10, paid |-> FALSE, refunded |-> FALSE, amount |-> 700, status |-> "-"],
     [created |-> 30, paid |-> TRUE, refunded |-> FALSE, amount |-> 0, status |-> "-"]}

\* customers, by their creation time (seconds)
CustomerKinds ==
    {[created |-> c, paid |-> FALSE, refunded |-> FALSE, amount |-> 0, status |-> "-"] :
       c \in {100, 2408000, 5000000}}

\* subscriptions, by their status
SubscriptionKinds ==
    {[created |-> 0, paid |-> FALSE, refunded |-> FALSE, amount |-> 0, status |-> st] :
       st \in {"active", "trialing", "canceled"}}

KindsOf(op) ==
    CASE op = "getTotalRevenue" -> ChargeKinds
      [] op = "getCustomerStats" -> CustomerKinds
      [] OTHER -> SubscriptionKinds

Windows == {[startDate |-> 10, endDate |-> 20], [startDate |-> 20, endDate |-> 30],
            [startDate |-> 30, endDate |-> 10]}
\* Math.floor(Date.now() / 1000) at the time getCustomerStats reads it
NowsSec == {5000000, 5000100}

Min(a, b) == IF a < b THEN a ELSE b

\* the ids of the items the platform lists for the operation, in order:
\* charges.list filters on created {gte, lte}, subscriptions.list on
\* status 'active', customers.list on nothing
Listed(op, c, args) ==
    LET keep(i) ==
          CASE op = "getTotalRevenue" ->
                 c[i].created >= args.startDate /\ c[i].created <= args.endDate
            [] op = "getActiveSubscribers" -> c[i].status = "active"
            [] OTHER -> TRUE
    IN SelectSeq([i \in 1..Len(c) |-> i], keep)

\* the answers the platform may give to list({limit: 100, starting_after}):
\* up to PageLimit of the listed items after the cursor, at least one when
\* any is left, and has_more when some are left after them
PageAnswers(op, c, args, cursor) ==
    LET after == SelectSeq(Listed(op, c, args), LAMBDA i : i > cursor)
        sizes == IF Len(after) = 0 THEN {0} ELSE 1..Min(PageLimit, Len(after))
    IN {[data |-> SubSeq(after, 1, k), has_more |-> k < Len(after)] : k \in sizes}

RevenueOfPaid(charge) == IF charge.paid THEN charge.amount ELSE 0

\* if (charge.paid && !charge.refunded) totalAmount += charge.amount ?? 0
RevenueOf(charge) == IF charge.paid /\ ~charge.refunded THEN charge.amount ELSE 0

RECURSIVE SumRevenue(_, _)
\* the for loop over chargesPage.data
SumRevenue(c, ids) ==
    IF ids = <<>> THEN 0 ELSE RevenueOf(c[Head(ids)]) + SumRevenue(c, Tail(ids))

NextCursorFirst(page) == IF page.has_more THEN page.data[1] ELSE 0

\* startingAfter = hasMore ? page.data[page.data.length - 1].id : undefined
NextCursor(page) == IF page.has_more THEN page.data[Len(page.data)] ELSE 0

\* totalAmount / 100, in euros and hundredths
ToEuros(cents) == [euros |-> cents \div 100, hundredths |-> cents % 100]

ThirtyDays == 30 * 24 * 3600

\* allCustomers.filter((c) => c.created >= thirtyDaysAgo).length
RecentCount(c, ids, now) ==
    LET thirtyDaysAgo == now - ThirtyDays
    IN Len(SelectSeq(ids, LAMBDA i : c[i].created >= thirtyDaysAgo))

InitPage ==
    /\ IdlePrice /\ rlog = NoCalls
    /\ IdleAttach /\ IdleCharge /\ IdleSub /\ IdleHook /\ IdleStat
    /\ IdleConnect /\ IdleEscrow
    /\ cards = NoPlatform
    /\ gop \in Ops
    /\ coll \in UNION {[1..n -> KindsOf(gop)] : n \in 0..MaxItems}
    /\ gpc = "idle"
    /\ gargs = [startDate |-> 0, endDate |-> 0]
    /\ hasMore = TRUE
    /\ startingAfter = 0
    /\ totalAmount = 0
    /\ allCustomers = <<>>
    /\ count = 0
    /\ gnow = 0
    /\ gout = [status |-> "pending"]
    /\ requests = <<>>
    /\ pages = <<>>
    /\ inflight = 0

\* the operation is called: hasMore = true, startingAfter = undefined, the
\* accumulator empty
PageStart ==
    /\ gpc = "idle"
    /\ IF gop = "getTotalRevenue" THEN gargs' \in Windows ELSE UNCHANGED gargs
    /\ hasMore' = TRUE
    /\ startingAfter' = 0
    /\ gpc' = "request"
    /\ UNCHANGED <<gop, coll, totalAmount, allCustomers, count, gnow, gout,
                   requests, pages, inflight>>
    /\ UNCHANGED rlog
    /\ UNCHANGED pageFrame

\* while (hasMore): list({..., limit: 100, starting_after: startingAfter})
PageRequest ==
    /\ gpc = "request"
    /\ hasMore
    /\ requests' = Append(requests, startingAfter)
    /\ inflight' = inflight + 1
    /\ gpc' = "await"
    /\ UNCHANGED <<gop, coll, gargs, hasMore, startingAfter, totalAmount,
                   allCustomers, count, gnow, gout, pages>>
    /\ rlog' = [rlog EXCEPT ![1] = Issue(@, gop, startingAfter)]
    /\ UNCHANGED pageFrame

\* the page arrives: it is folded, then hasMore and startingAfter are set
PageResponse ==
    /\ gpc = "await"
    /\ \E page \in PageAnswers(gop, coll, gargs, requests[Len(requests)]) :
         /\ pages' = Append(pages, page)
         /\ totalAmount' = IF gop = "getTotalRevenue"
                           THEN totalAmount + SumRevenue(coll, page.data)
                           ELSE totalAmount
         /\ allCustomers' = IF gop = "getCustomerStats"
                            THEN allCustomers \o page.data
                            ELSE allCustomers
         /\ count' = IF gop = "getActiveSubscribers"
                     THEN count + Len(page.data)
                     ELSE count
         /\ hasMore' = page.has_more
         /\ startingAfter' = NextCursor(page)
         /\ gpc' = IF page.has_more THEN "request" ELSE "return"
    /\ inflight' = inflight - 1
    /\ UNCHANGED <<gop, coll, gargs, gnow, gout, requests>>
    /\ rlog' = [rlog EXCEPT ![1] = Answer(@, "ok")]
    /\ UNCHANGED pageFrame

\* the list call fails: no try block, the rejection leaves the operation
PageFail ==
    /\ gpc = "await"
    /\ inflight' = inflight - 1
    /\ gout' = [status |-> "error"]
    /\ gpc' = "failed"
    /\ UNCHANGED <<gop, coll, gargs, hasMore, startingAfter, totalAmount,
                   allCustomers, count, gnow, requests, pages>>
    /\ rlog' = [rlog EXCEPT ![1] = Answer(@, "failed")]
    /\ UNCHANGED pageFrame

\* after the loop: the result is computed and returned
PageReturn ==
    /\ gpc = "return"
    /\ ~hasMore
    /\ \E now \in NowsSec :
         /\ gnow' = IF gop = "getCustomerStats" THEN now ELSE gnow
         /\ gout' =
              CASE gop = "getTotalRevenue" ->
                     [status |-> "ok", value |-> ToEuros(totalAmount)]
                [] gop = "getCustomerStats" ->
                     [status |-> "ok", total |-> Len(allCustomers),
                      new |-> RecentCount(coll, allCustomers, now)]
                [] OTHER -> [status |-> "ok", value |-> count]
    /\ gpc' = "done"
    /\ UNCHANGED <<gop, coll, gargs, hasMore, startingAfter, totalAmount,
                   allCustomers, count, requests, pages, inflight>>
    /\ UNCHANGED rlog
    /\ UNCHANGED pageFrame

\* the platform answers with a page that has no item and still reports more:
\* the fold adds nothing, hasMore is set, and page.data[page.data.length - 1]
\* is undefined, so reading its id throws a TypeError out of the operation
PageEmptyResponse ==
    /\ gpc = "await"
    /\ \E i \in 1..Len(coll) : i > requests[Len(requests)]
    /\ LET page == [data |-> <<>>, has_more |-> TRUE]
       IN /\ pages' = Append(pages, page)
          /\ hasMore' = page.has_more
    /\ inflight' = inflight - 1
    /\ rlog' = [rlog EXCEPT ![1] = Answer(@, "ok")]
    /\ gout' = [status |-> "TypeError"]
    /\ gpc' = "failed"
    /\ UNCHANGED <<gop, coll, gargs, startingAfter, totalAmount, allCustomers,
                   count, gnow, requests>>
    /\ UNCHANGED pageFrame

NextPage ==
    \/ PageStart
    \/ PageRequest
    \/ PageResponse
    \/ PageFail
    \/ PageReturn

\* the loops against a platform that may also answer with an empty page
\* that reports more
NextPageAny ==
    \/ PageStart
    \/ PageRequest
    \/ PageResponse
    \/ PageEmptyResponse
    \/ PageFail
    \/ PageReturn

(***************************************************************************)
(* getPaymentStats.  A JavaScript number is modelled by the exact fraction *)
(* [num, den]; a division by zero gives NaN (0/0) or Infinity (x/0), as    *)
(* in JavaScript, and both propagate.                                      *)
(***************************************************************************)
MaxPayments == 2      \* PaymentIntents on the platform's page

RECURSIVE Gcd(_, _)
Gcd(a, b) == IF b = 0 THEN a ELSE Gcd(b, a % b)

Abs(n) == IF n < 0 THEN -n ELSE n

Frac(n, d) ==
    IF d = 0 THEN [num |-> IF n = 0 THEN 0 ELSE 1, den |-> 0]
    ELSE LET g == Gcd(Abs(n), Abs(d))
             sg == IF d < 0 THEN -1 ELSE 1
         IN [num |-> sg * (n \div g), den |-> sg * (d \div g)]

Num(n) == [num |-> n, den |-> 1]
NaN == [num |-> 0, den |-> 0]
IsFinite(x) == x.den # 0

\* x + y, x / y and x * y on numbers
Plus(x, y) ==
    IF ~IsFinite(x) \/ ~IsFinite(y) THEN NaN
    ELSE Frac(x.num * y.den + y.num * x.den, x.den * y.den)
Over(x, y) ==
    IF ~IsFinite(x) \/ ~IsFinite(y) THEN NaN
    ELSE Frac(x.num * y.den, x.den * y.num)
Times(x, y) ==
    IF ~IsFinite(x) \/ ~IsFinite(y) THEN NaN
    ELSE Frac(x.num * y.num, x.den * y.den)

\* PaymentIntents, by what getPaymentStats reads of them
IntentKinds ==
    {[status |-> "succeeded", amount_received |-> 1050, payment_method_types |-> <<"card">>],
     [status |-> "succeeded", amount_received |-> 333,
      payment_method_types |-> <<"sepa_debit", "card">>],
     [status |-> "requires_payment_method", amount_received |-> 0,
      payment_method_types |-> <<"card">>],
     [status |-> "canceled", amount_received |-> 0, payment_method_types |-> <<"card">>],
     [status |-> "succeeded", amount_received |-> 250, payment_method_types |-> <<>>]}

\* the charges of one PaymentIntent, by what getPaymentStats reads of them
ChargeLists ==
    {<<>>,
     <<[refunded |-> FALSE, amount_refunded |-> 0]>>,
     <<[refunded |-> TRUE, amount_refunded |-> 1050]>>,
     <<[refunded |-> FALSE, amount_refunded |-> 0], [refunded |-> FALSE, amount_refunded |-> 100]>>}

SomeFullyRefunded(charges) == \E i \in 1..Len(charges) : charges[i].refunded

\* payments.filter((p) => p.status === 'succeeded'), by position
Successful(ps) == SelectSeq([i \in 1..Len(ps) |-> i], LAMBDA i : ps[i].status = "succeeded")

\* chargesPage.data.some((c) => c.refunded || c.amount_refunded > 0)
SomeRefunded(charges) ==
    \E i \in 1..Len(charges) : charges[i].refunded \/ charges[i].amount_refunded > 0

\* pi.payment_method_types[0] ?? 'unknown'
MethodOf(pi) ==
    IF Len(pi.payment_method_types) = 0 THEN "unknown" ELSE pi.payment_method_types[1]

\* (pi.amount_received ?? 0) / 100
AmountEuro(pi) == Over(Num(pi.amount_received), Num(100))

RECURSIVE SumAmounts(_, _)
\* sumAmounts += amountEuro, over the successful
SumAmounts(ps, ids) ==
    IF ids = <<>> THEN Num(0)
    ELSE Plus(SumAmounts(ps, SubSeq(ids, 1, Len(ids) - 1)), AmountEuro(ps[ids[Len(ids)]]))

\* methodStats[method].count += 1; methodStats[method].value += amountEuro
AddToMethod(stats, method, amountEuro) ==
    IF \E k \in 1..Len(stats) : stats[k].method = method
    THEN [k \in 1..Len(stats) |->
            IF stats[k].method = method
            THEN [method |-> method, count |-> stats[k].count + 1,
                  value |-> Plus(stats[k].value, amountEuro)]
            ELSE stats[k]]
    ELSE Append(stats, [method |-> method, count |-> 1, value |-> Plus(Num(0), amountEuro)])

RECURSIVE MethodStats(_, _)
\* the loop over the successful, and Object.entries(methodStats) in the
\* order the methods were first met
MethodStats(ps, ids) ==
    IF ids = <<>> THEN <<>>
    ELSE AddToMethod(MethodStats(ps, SubSeq(ids, 1, Len(ids) - 1)),
                     MethodOf(ps[ids[Len(ids)]]), AmountEuro(ps[ids[Len(ids)]]))

AvgValueByTotal(sumAmounts, nSuccessful, totalCount) ==
    IF totalCount > 0 THEN Over(sumAmounts, Num(nSuccessful)) ELSE Num(0)

\* successful.length > 0 ? sumAmounts / successful.length : 0
AvgValue(sumAmounts, nSuccessful, totalCount) ==
    IF nSuccessful > 0 THEN Over(sumAmounts, Num(nSuccessful)) ELSE Num(0)

\* totalCount > 0 ? (n / totalCount) * 100 : 0
Rate(n, totalCount) ==
    IF totalCount > 0 THEN Times(Over(Num(n), Num(totalCount)), Num(100)) ELSE Num(0)

NoStats == [status |-> "pending", successRate |-> Num(0), averageValue |-> Num(0),
            refundRate |-> Num(0), byMethod |-> <<>>]

InitStat ==
    /\ IdlePrice /\ rlog = NoCalls
    /\ IdleAttach /\ IdleCharge /\ IdleSub /\ IdleHook /\ IdlePage
    /\ IdleConnect /\ IdleEscrow
    /\ cards = NoPlatform
    /\ ppc = "idle"
    /\ \E n \in 0..MaxPayments :
         /\ payments \in [1..n -> IntentKinds]
         /\ chargesOf \in [1..n -> ChargeLists]
    /\ pidx = 0
    /\ refundedIntents = {}
    /\ pout = NoStats

\* GET stats/payments arrives: paymentIntents.list({limit: 100}) is called
StatStart ==
    /\ ppc = "idle"
    /\ ppc' = "list"
    /\ UNCHANGED <<payments, chargesOf, pidx, refundedIntents, pout>>
    /\ rlog' = [rlog EXCEPT ![1] = Issue(@, "paymentIntents.list", 0)]
    /\ UNCHANGED statFrame

\* 1) the page of PaymentIntents arrives
StatList ==
    /\ ppc = "list"
    /\ pidx' = 1
    /\ ppc' = IF Len(payments) = 0 THEN "compute" ELSE "charges"
    /\ UNCHANGED <<payments, chargesOf, refundedIntents, pout>>
    /\ rlog' = [rlog EXCEPT ![1] =
                    IF Len(payments) = 0 THEN Answer(@, "ok")
                    ELSE Issue(Answer(@, "ok"), "charges.list", 1)]
    /\ UNCHANGED statFrame

\* 1) paymentIntents.list fails: no try block, the rejection leaves
StatListFail ==
    /\ ppc = "list"
    /\ pout' = [pout EXCEPT !.status = "error"]
    /\ ppc' = "failed"
    /\ UNCHANGED <<payments, chargesOf, pidx, refundedIntents>>
    /\ rlog' = [rlog EXCEPT ![1] = Answer(@, "failed")]
    /\ UNCHANGED statFrame

\* 3) charges.list({payment_intent: pi.id}) of the next PaymentIntent arrives
StatCharges ==
    /\ ppc = "charges"
    /\ refundedIntents' = IF SomeRefunded(chargesOf[pidx])
                          THEN refundedIntents \cup {pidx}
                          ELSE refundedIntents
    /\ pidx' = pidx + 1
    /\ ppc' = IF pidx = Len(payments) THEN "compute" ELSE "charges"
    /\ UNCHANGED <<payments, chargesOf, pout>>
    /\ rlog' = [rlog EXCEPT ![1] =
                    IF pidx = Len(payments) THEN Answer(@, "ok")
                    ELSE Issue(Answer(@, "ok"), "charges.list", pidx + 1)]
    /\ UNCHANGED statFrame

StatChargesFailRetry ==
    /\ ppc = "charges"
    /\ rlog' = [rlog EXCEPT ![1] = Issue(Answer(@, "failed"), "charges.list", pidx)]
    /\ UNCHANGED <<ppc, payments, chargesOf, pidx, refundedIntents, pout>>
    /\ UNCHANGED statFrame

\* 3) charges.list fails: no try block, the rejection leaves
StatChargesFail ==
    /\ ppc = "charges"
    /\ pout' = [pout EXCEPT !.status = "error"]
    /\ ppc' = "failed"
    /\ UNCHANGED <<payments, chargesOf, pidx, refundedIntents>>
    /\ rlog' = [rlog EXCEPT ![1] = Answer(@, "failed")]
    /\ UNCHANGED statFrame

\* 4) the statistics are computed and returned
StatReturn ==
    /\ ppc = "compute"
    /\ LET successful == Successful(payments)
           totalCount == Len(payments)
           sumAmounts == SumAmounts(payments, successful)
       IN pout' = [status |-> "ok",
                   successRate |-> Rate(Len(successful), totalCount),
                   averageValue |-> AvgValue(sumAmounts, Len(successful), totalCount),
                   refundRate |-> Rate(Cardinality(refundedIntents), totalCount),
                   byMethod |-> MethodStats(payments, successful)]
    /\ ppc' = "done"
    /\ UNCHANGED <<payments, chargesOf, pidx, refundedIntents>>
    /\ UNCHANGED rlog
    /\ UNCHANGED statFrame

NextStat ==
    \/ StatStart
    \/ StatList
    \/ StatListFail
    \/ StatCharges
    \/ StatChargesFail
    \/ StatReturn

(***************************************************************************)
(* getStripeAccountStatus: GET connect/:accountId/status.  A requirement    *)
(* name is the sequence of its dot-separated parts.                        *)
(***************************************************************************)
AccountIds == {"acct_1", "acct_missing"}

RequirementLists ==
    {<<>>,
     <<<<"external_account">>>>,
     <<<<"external_account">>, <<"individual", "verification", "document">>>>,
     <<<<"individual", "verification", "additional_document">>>>}

\* account.requirements, which may be absent, as may its currently_due
RequirementKinds ==
    {[present |-> FALSE, due |-> FALSE, currently_due |-> <<>>],
     [present |-> TRUE, due |-> FALSE, currently_due |-> <<>>]}
    \cup {[present |-> TRUE, due |-> TRUE, currently_due |-> l] : l \in RequirementLists}

AccountKinds ==
    [details_submitted : BOOLEAN, charges_enabled : BOOLEAN, payouts_enabled : BOOLEAN,
     requirements : RequirementKinds]

RetrieveErrorCodes == {"resource_missing", "rate_limit", "api_connection_error"}

\* req.includes('verification.document')
Includes(req, needle) ==
    \E i \in 1..(Len(req) - Len(needle) + 1) : SubSeq(req, i, i + Len(needle) - 1) = needle

\* account.requirements?.currently_due?.some(...) ?? false
NeedsIdCard(acc) ==
    IF acc.requirements.present /\ acc.requirements.due
    THEN \E i \in 1..Len(acc.requirements.currently_due) :
            Includes(acc.requirements.currently_due[i], <<"verification", "document">>)
    ELSE FALSE

\* the body of the try block, once the account is retrieved
AccountStatus(acc) ==
    [status |-> "ok",
     isValid |-> acc.details_submitted = TRUE,
     isEnabled |-> acc.charges_enabled = TRUE /\ acc.payouts_enabled = TRUE,
     needsIdCard |-> NeedsIdCard(acc)]

AccountCatchRethrow(err) ==
    [status |-> "error", isValid |-> FALSE, isEnabled |-> FALSE, needsIdCard |-> FALSE]

\* catch (err) { ...; return { isValid: false, isEnabled: false, needsIdCard: false } }
AccountCatch(err) ==
    [status |-> "ok", isValid |-> FALSE, isEnabled |-> FALSE, needsIdCard |-> FALSE]

InitAccount ==
    /\ IdlePrice /\ rlog = NoCalls
    /\ IdleAttach /\ IdleCharge /\ IdleSub /\ IdleHook /\ IdlePage /\ IdleStat
    /\ IdleTransfer /\ IdleEscrow
    /\ cards = NoPlatform
    /\ account \in AccountKinds
    /\ kpc = "idle"
    /\ kid = None
    /\ kerr = None
    /\ kout = [status |-> "pending", isValid |-> FALSE, isEnabled |-> FALSE,
               needsIdCard |-> FALSE]

\* the request arrives: accounts.retrieve(stripeAccountId) is called
AccountStart ==
    /\ kpc = "idle"
    /\ \E id \in AccountIds : kid' = id
    /\ kpc' = "retrieve"
    /\ UNCHANGED <<account, kerr, kout>>
    /\ UNCHANGED accountFrame

\* the platform answers with the account
AccountRetrieve ==
    /\ kpc = "retrieve"
    /\ kid = "acct_1"
    /\ kout' = AccountStatus(account)
    /\ kpc' = "done"
    /\ UNCHANGED <<account, kid, kerr>>
    /\ UNCHANGED accountFrame

\* the retrieval fails: always for an account the platform does not have
AccountRetrieveFail ==
    /\ kpc = "retrieve"
    /\ \E code \in RetrieveErrorCodes :
         /\ (kid # "acct_1") => code = "resource_missing"
         /\ kerr' = code
         /\ kout' = AccountCatch(code)
    /\ kpc' = "done"
    /\ UNCHANGED <<account, kid>>
    /\ UNCHANGED accountFrame

NextAccount ==
    \/ AccountStart
    \/ AccountRetrieve
    \/ AccountRetrieveFail

(***************************************************************************)
(* transferToConnectedAccount: POST connect/:accountId/transfer.           *)
(***************************************************************************)
MaxTransfers == 2     \* transfer requests served, one after the other

TransferAmounts == {0, 500, 70000}

\* the id the platform gives its n-th transfer
TransferId(n) == "tr_" \o ToString(n)

MockTransferId == "mock_transfer"

TransferCatchRethrow(err, args) ==
    [status |-> "error", id |-> None, amount |-> args.amountInCents,
     destination |-> args.stripeAccountId]

\* catch (err) { ...; return { id: 'mock_transfer', amount, destination, ... } }
TransferCatch(err, args) ==
    [status |-> "ok", id |-> MockTransferId, amount |-> args.amountInCents,
     destination |-> args.stripeAccountId]

InitTransfer ==
    /\ IdlePrice /\ rlog = NoCalls
    /\ IdleAttach /\ IdleCharge /\ IdleSub /\ IdleHook /\ IdlePage /\ IdleStat
    /\ IdleAccount /\ IdleEscrow
    /\ cards = NoPlatform
    /\ tpc = "idle"
    /\ targs = [stripeAccountId |-> None, amountInCents |-> 0]
    /\ terr = None
    /\ tout = [status |-> "pending", id |-> None, amount |-> 0, destination |-> None]
    /\ transfers = <<>>
    /\ tdone = 0

\* a request arrives: transfers.create({amount, currency: 'eur', destination})
TransferStart ==
    /\ tpc \in {"idle", "done"}
    /\ tdone < MaxTransfers
    /\ \E id \in AccountIds, amount \in TransferAmounts :
         targs' = [stripeAccountId |-> id, amountInCents |-> amount]
    /\ terr' = None
    /\ tout' = [status |-> "pending", id |-> None, amount |-> 0, destination |-> None]
    /\ tpc' = "create"
    /\ UNCHANGED <<transfers, tdone>>
    /\ UNCHANGED transferFrame

\* the platform makes the transfer and answers with it
TransferCreate ==
    /\ tpc = "create"
    /\ targs.stripeAccountId = "acct_1"
    /\ targs.amountInCents > 0
    /\ transfers' = Append(transfers, [amount |-> targs.amountInCents,
                                       destination |-> targs.stripeAccountId])
    /\ tout' = [status |-> "ok", id |-> TransferId(Len(transfers) + 1),
                amount |-> targs.amountInCents, destination |-> targs.stripeAccountId]
    /\ tpc' = "done"
    /\ tdone' = tdone + 1
    /\ UNCHANGED <<targs, terr>>
    /\ UNCHANGED transferFrame

\* the platform refuses the transfer, or cannot be reached
TransferCreateFail ==
    /\ tpc = "create"
    /\ \E code \in {"resource_missing", "parameter_invalid_integer", "balance_insufficient",
                     "api_connection_error"} :
         /\ terr' = code
         /\ tout' = TransferCatch(code, targs)
    /\ tpc' = "done"
    /\ tdone' = tdone + 1
    /\ UNCHANGED <<targs, transfers>>
    /\ UNCHANGED transferFrame

NextTransfer ==
    \/ TransferStart
    \/ TransferCreate
    \/ TransferCreateFail

(***************************************************************************)
(* The escrow handlers: initiate-service-payment and                       *)
(* initiate-delivery-payment create a manual-capture PaymentIntent,        *)
(* capture-delivery-payment captures one.  A field of req.body is None     *)
(* when the body does not have it.                                         *)
(***************************************************************************)
Handlers == {"service", "delivery", "capture"}

\* the id and the client secret the platform gives its n-th PaymentIntent
EscrowId(n) == "pi_" \o ToString(n)
ClientSecret(n) == EscrowId(n) \o "_secret"

\* !x of a string field and of the amount
FalsyStr(x) == x = None \/ x = ""
FalsyNum(a) == ~a.given \/ a.n = 0

\* the destination account the handler reads from the body
DestinationOf(handler, body) ==
    IF handler = "service" THEN body.providerAccountId ELSE body.delivererAccountId

\* if (!customerId || !amount || !currency || !providerAccountId || !serviceId)
\* if (!customerId || !amount || !currency || !delivererAccountId)
\* if (!paymentIntentId)
Rejected(handler, body) ==
    CASE handler = "service" ->
            \/ FalsyStr(body.customerId) \/ FalsyNum(body.amount)
            \/ FalsyStr(body.currency) \/ FalsyStr(body.providerAccountId)
            \/ FalsyStr(body.serviceId)
      [] handler = "delivery" ->
            \/ FalsyStr(body.customerId) \/ FalsyNum(body.amount)
            \/ FalsyStr(body.currency) \/ FalsyStr(body.delivererAccountId)
      [] OTHER -> FalsyStr(body.paymentIntentId)

MsgMethod == "Methode non autorisee"
MsgRequired == "requis"
MsgCreateFailed == "Impossible de creer le PaymentIntent"
MsgCaptureFailed == "Impossible de capturer le PaymentIntent"

\* the params of stripe.paymentIntents.create
CreateParams(handler, body) ==
    [amount |-> body.amount.n,
     currency |-> body.currency,
     customer |-> body.customerId,
     capture_method |-> "manual",
     payment_method_types |-> <<"card">>,
     transfer_data |-> [destination |-> DestinationOf(handler, body)],
     metadata |-> IF handler = "service"
                  THEN [type |-> "service_booking", serviceId |-> body.serviceId]
                  ELSE [type |-> "delivery_payment", serviceId |-> None]]

\* bodies of the two create handlers
CreateBodies(handler) ==
    {[NoBody EXCEPT !.customerId = c, !.amount = a, !.currency = cur,
                    !.providerAccountId = IF handler = "service" THEN acct ELSE None,
                    !.delivererAccountId = IF handler = "delivery" THEN acct ELSE None,
                    !.serviceId = svc] :
        c \in {None, "", "cus_A"},
        a \in {NoAmount} \cup {[given |-> TRUE, n |-> k] : k \in {0 - 500, 0, 50, 1999}},
        cur \in {None, "eur"},
        acct \in {None, "acct_1"},
        svc \in IF handler = "service" THEN {None, "svc_1"} ELSE {None}}

\* every request a client can send to the two create handlers
CreateRequests ==
    UNION {{[handler |-> h, method |-> "POST", body |-> b] : b \in CreateBodies(h)} :
              h \in {"service", "delivery"}}
    \cup {[handler |-> h, method |-> "GET", body |-> NoBody] : h \in {"service", "delivery"}}

GoodServiceBody ==
    [NoBody EXCEPT !.customerId = "cus_A", !.amount = [given |-> TRUE, n |-> 1999],
                   !.currency = "eur", !.providerAccountId = "acct_1",
                   !.serviceId = "svc_1"]
GoodDeliveryBody ==
    [NoBody EXCEPT !.customerId = "cus_A", !.amount = [given |-> TRUE, n |-> 1999],
                   !.currency = "eur", !.delivererAccountId = "acct_1"]

\* the requests of a booking's life: create, then capture
LifeRequests ==
    {[handler |-> "service", method |-> "POST", body |-> GoodServiceBody],
     [handler |-> "delivery", method |-> "POST", body |-> GoodDeliveryBody],
     [handler |-> "delivery", method |-> "POST",
      body |-> [GoodDeliveryBody EXCEPT !.delivererAccountId = None]]}
    \cup {[handler |-> "capture", method |-> "POST",
           body |-> [NoBody EXCEPT !.paymentIntentId = id]] :
            id \in {None, EscrowId(1), EscrowId(2)}}
    \cup {[handler |-> "capture", method |-> "GET", body |-> NoBody]}

CaptureResponseAlways(ok) == [status |-> 200, body |-> "success"]

\* return res.status(200).json({ success: true }), or the catch block
CaptureResponse(ok) ==
    IF ok THEN [status |-> 200, body |-> "success"]
    ELSE [status |-> 500, body |-> MsgCaptureFailed]

InitEscrow ==
    /\ IdlePrice /\ rlog = NoCalls
    /\ IdleAttach /\ IdleCharge /\ IdleSub /\ IdleHook /\ IdlePage /\ IdleStat
    /\ IdleConnect
    /\ cards = NoPlatform
    /\ escrow = <<>>
    /\ epc = [r \in EReqs |-> "idle"]
    /\ ereq = [r \in EReqs |-> NoRequest]
    /\ eout = [r \in EReqs |-> NoResponse]
    /\ ecalls = [r \in EReqs |-> <<>>]

\* a request arrives and the handler runs up to its first await: it answers
\* 405 or 400 at once, or issues its call to the platform (requests are
\* numbered in the order they arrive)
EscrowArrive(r, reqs) ==
    /\ epc[r] = "idle"
    /\ \A q \in EReqs : q < r => epc[q] # "idle"
    /\ \E req \in reqs :
         /\ ereq' = [ereq EXCEPT ![r] = req]
         /\ IF req.method # "POST"
            THEN /\ eout' = [eout EXCEPT ![r] = [status |-> 405, body |-> MsgMethod]]
                 /\ epc' = [epc EXCEPT ![r] = "done"]
                 /\ UNCHANGED ecalls
            ELSE IF Rejected(req.handler, req.body)
            THEN /\ eout' = [eout EXCEPT ![r] = [status |-> 400, body |-> MsgRequired]]
                 /\ epc' = [epc EXCEPT ![r] = "done"]
                 /\ UNCHANGED ecalls
            ELSE /\ epc' = [epc EXCEPT ![r] =
                               IF req.handler = "capture" THEN "capture" ELSE "create"]
                 /\ ecalls' = [ecalls EXCEPT ![r] =
                                  <<IF req.handler = "capture" THEN "paymentIntents.capture"
                                    ELSE "paymentIntents.create">>]
                 /\ UNCHANGED eout
    /\ UNCHANGED escrow
    /\ UNCHANGED escrowFrame

\* paymentIntents.create answers with the new PaymentIntent; the platform
\* takes no amount below one minor unit
EscrowCreate(r) ==
    /\ epc[r] = "create"
    /\ ereq[r].body.amount.n > 0
    /\ escrow' = Append(escrow, [status |-> "requires_payment_method",
                                 params |-> CreateParams(ereq[r].handler, ereq[r].body)])
    /\ eout' = [eout EXCEPT ![r] = [status |-> 200, body |-> ClientSecret(Len(escrow) + 1)]]
    /\ epc' = [epc EXCEPT ![r] = "done"]
    /\ UNCHANGED <<ereq, ecalls>>
    /\ UNCHANGED escrowFrame

\* paymentIntents.create fails: the catch block answers 500
EscrowCreateFail(r) ==
    /\ epc[r] = "create"
    /\ eout' = [eout EXCEPT ![r] = [status |-> 500, body |-> MsgCreateFailed]]
    /\ epc' = [epc EXCEPT ![r] = "done"]
    /\ UNCHANGED <<escrow, ereq, ecalls>>
    /\ UNCHANGED escrowFrame

\* the platform's capture: it succeeds for an authorized PaymentIntent that
\* awaits capture, and for no other
Capturable(id) ==
    \E n \in 1..Len(escrow) : EscrowId(n) = id /\ escrow[n].status = "requires_capture"

Captured(id) ==
    [n \in 1..Len(escrow) |->
        IF EscrowId(n) = id THEN [escrow[n] EXCEPT !.status = "succeeded"] ELSE escrow[n]]

\* paymentIntents.capture answers: the handler answers 200 {success: true}
EscrowCapture(r) ==
    /\ epc[r] = "capture"
    /\ Capturable(ereq[r].body.paymentIntentId)
    /\ escrow' = Captured(ereq[r].body.paymentIntentId)
    /\ eout' = [eout EXCEPT ![r] = CaptureResponse(TRUE)]
    /\ epc' = [epc EXCEPT ![r] = "done"]
    /\ UNCHANGED <<ereq, ecalls>>
    /\ UNCHANGED escrowFrame

\* paymentIntents.capture is refused (unknown, not yet authorized, already
\* captured, canceled or expired) or the platform cannot be reached: the
\* catch block answers 500
EscrowCaptureFail(r) ==
    /\ epc[r] = "capture"
    /\ eout' = [eout EXCEPT ![r] = CaptureResponse(FALSE)]
    /\ epc' = [epc EXCEPT ![r] = "done"]
    /\ UNCHANGED <<escrow, ereq, ecalls>>
    /\ UNCHANGED escrowFrame

\* the platform captures but its answer is lost: the catch block answers 500
EscrowCaptureLost(r) ==
    /\ epc[r] = "capture"
    /\ Capturable(ereq[r].body.paymentIntentId)
    /\ escrow' = Captured(ereq[r].body.paymentIntentId)
    /\ eout' = [eout EXCEPT ![r] = CaptureResponse(FALSE)]
    /\ epc' = [epc EXCEPT ![r] = "done"]
    /\ UNCHANGED <<ereq, ecalls>>
    /\ UNCHANGED escrowFrame

\* the customer confirms the payment with the client secret: the funds are
\* authorized and await capture
CustomerConfirms(n) ==
    /\ n \in 1..Len(escrow)
    /\ escrow[n].status = "requires_payment_method"
    /\ escrow' = [escrow EXCEPT ![n].status = "requires_capture"]
    /\ UNCHANGED <<epc, ereq, eout, ecalls>>
    /\ UNCHANGED escrowFrame

\* the platform cancels an uncaptured PaymentIntent: canceled or expired
PlatformCancels(n) ==
    /\ n \in 1..Len(escrow)
    /\ escrow[n].status \in {"requires_payment_method", "requires_capture"}
    /\ escrow' = [escrow EXCEPT ![n].status = "canceled"]
    /\ UNCHANGED <<epc, ereq, eout, ecalls>>
    /\ UNCHANGED escrowFrame

\* one request to a create handler
NextEscrowCreate ==
    \/ EscrowArrive(1, CreateRequests)
    \/ EscrowCreate(1)
    \/ EscrowCreateFail(1)

\* requests to the three handlers, and the life of the PaymentIntents
NextEscrow ==
    \/ \E r \in EReqs :
         \/ EscrowArrive(r, LifeRequests)
         \/ EscrowCreate(r)
         \/ EscrowCreateFail(r)
         \/ EscrowCapture(r)
         \/ EscrowCaptureFail(r)
         \/ EscrowCaptureLost(r)
    \/ \E n \in EReqs :
         \/ CustomerConfirms(n)
         \/ PlatformCancels(n)

(***************************************************************************)
(* createPriceForPlan: POST prices.  planPrice is a number of euros, held  *)
(* here in thousandths of a euro.                                          *)
(***************************************************************************)
PlanNames == {None, "", "Premium"}
PlanPrices == {NoAmount} \cup {[given |-> TRUE, n |-> k] : k \in {0, 9990, 9995}}

MsgPlanInvalid == "Le plan doit avoir un nom et un prix valides."
MsgPlanFailed == "Impossible de creer le plan sur Stripe"

\* Math.round(planPrice * 100)
UnitAmount(planPrice) == (planPrice.n + 5) \div 10

InitPrice ==
    /\ IdleAttach /\ IdleCharge /\ IdleSub /\ IdleHook /\ IdlePage /\ IdleStat
    /\ IdleConnect /\ IdleEscrow
    /\ cards = NoPlatform
    /\ rlog = NoCalls
    /\ vpc = "idle"
    /\ vargs = [planName |-> None, planPrice |-> 0]
    /\ products = <<>>
    /\ prices = <<>>
    /\ vout = NoOutcome

\* the request arrives: if (!planName || !planPrice) throw, before the try
\* block; otherwise 1) products.create({name}) is called
PriceStart ==
    /\ vpc = "idle"
    /\ \E name \in PlanNames, price \in PlanPrices :
         /\ vargs' = [planName |-> name, planPrice |-> price.n]
         /\ IF FalsyStr(name) \/ FalsyNum(price)
            THEN /\ vout' = [status |-> "error", message |-> MsgPlanInvalid]
                 /\ vpc' = "done"
                 /\ UNCHANGED rlog
            ELSE /\ vpc' = "product"
                 /\ rlog' = [rlog EXCEPT ![1] = Issue(@, "products.create", 0)]
                 /\ UNCHANGED vout
    /\ UNCHANGED <<products, prices>>
    /\ UNCHANGED priceFrame

\* 1) the product is created; 2) prices.create is called
PriceProduct ==
    /\ vpc = "product"
    /\ products' = Append(products, [name |-> vargs.planName])
    /\ rlog' = [rlog EXCEPT ![1] = Issue(Answer(@, "ok"), "prices.create", 0)]
    /\ vpc' = "price"
    /\ UNCHANGED <<vargs, prices, vout>>
    /\ UNCHANGED priceFrame

\* 1) products.create fails: caught, rethrown
PriceProductFail ==
    /\ vpc = "product"
    /\ rlog' = [rlog EXCEPT ![1] = Answer(@, "failed")]
    /\ vout' = [status |-> "error", message |-> MsgPlanFailed]
    /\ vpc' = "done"
    /\ UNCHANGED <<vargs, products, prices>>
    /\ UNCHANGED priceFrame

\* 2) the monthly price is created and returned
PricePrice ==
    /\ vpc = "price"
    /\ prices' = Append(prices, [unit_amount |-> UnitAmount([given |-> TRUE,
                                                              n |-> vargs.planPrice]),
                                 currency |-> "eur",
                                 recurring |-> [interval |-> "month"],
                                 product |-> Len(products)])
    /\ rlog' = [rlog EXCEPT ![1] = Answer(@, "ok")]
    /\ vout' = [status |-> "ok", message |-> None]
    /\ vpc' = "done"
    /\ UNCHANGED <<vargs, products>>
    /\ UNCHANGED priceFrame

\* 2) prices.create fails: caught, rethrown; the product stays
PricePriceFail ==
    /\ vpc = "price"
    /\ rlog' = [rlog EXCEPT ![1] = Answer(@, "failed")]
    /\ vout' = [status |-> "error", message |-> MsgPlanFailed]
    /\ vpc' = "done"
    /\ UNCHANGED <<vargs, products, prices>>
    /\ UNCHANGED priceFrame

NextPrice ==
    \/ PriceStart
    \/ PriceProduct
    \/ PriceProductFail
    \/ PricePrice
    \/ PricePriceFail

(***************************************************************************)
(* The operations that chain remote calls, one invocation of one of them   *)
(* per behaviour (attachPaymentMethod: its concurrent requests).           *)
(***************************************************************************)
InitLayer == InitAttach \/ InitCharge \/ InitPrice \/ InitPage \/ InitStat

NextLayer ==
    \/ IdleCharge /\ IdlePrice /\ IdlePage /\ IdleStat /\ NextAttach
    \/ IdleAttach /\ IdlePrice /\ IdlePage /\ IdleStat /\ NextCharge
    \/ IdleAttach /\ IdleCharge /\ IdlePage /\ IdleStat /\ NextPrice
    \/ IdleAttach /\ IdleCharge /\ IdlePrice /\ IdleStat /\ NextPage
    \/ IdleAttach /\ IdleCharge /\ IdlePrice /\ IdlePage /\ NextStat

SpecAttach == InitAttach /\ [][NextAttach]_vars

SpecCharge == InitCharge /\ [][NextCharge]_vars

SpecSub == InitSub /\ [][NextSub]_vars

SpecHook == InitHook /\ [][NextHook]_vars

SpecPage == InitPage /\ [][NextPage]_vars

SpecStat == InitStat /\ [][NextStat]_vars

SpecAccount == InitAccount /\ [][NextAccount]_vars

SpecTransfer == InitTransfer /\ [][NextTransfer]_vars

SpecEscrowCreate == InitEscrow /\ [][NextEscrowCreate]_vars

SpecEscrow == InitEscrow /\ [][NextEscrow]_vars

SpecLayer == InitLayer /\ [][NextLayer]_vars

SpecPageAny == InitPage /\ [][NextPageAny]_vars

(***************************************************************************)
(* Properties.                                                             *)
(***************************************************************************)
Range(f) == {f[i] : i \in DOMAIN f}

\* the error class of the specification's taxonomy each message stands for
ErrorClass(msg) ==
    CASE msg = MsgAlreadyAttached -> "ConflictError"
      [] msg = MsgNoInstrument -> "ValidationError"
      [] msg = MsgDeclined -> "PaymentDeclinedError"
      [] msg = MsgSignature -> "SignatureError"
      [] OTHER -> "GatewayError"

\* C1: when attachPaymentMethod is called twice in sequence with the same
\* (customer, instrument) pair and the first call succeeds, the second call
\* fails with ConflictError and issues no attach call to the platform
\* (the platform answering the second call's requests).
C1_SecondAttachIsConflict ==
    \A r1, r2 \in Reqs :
        (/\ r1 \in finishedBefore[r2]
         /\ aout[r1] = "success"
         /\ aargs[r1] = aargs[r2]
         /\ apc[r2] = "done"
         /\ athrown[r2] # "platform")
        => /\ ErrorClass(aout[r2]) = "ConflictError"
           /\ "attach" \notin Range(acalls[r2])

\* C2: under any interleaving of concurrent attachPaymentMethod requests, no
\* attach call is issued to the platform for an instrument that is already
\* attached to that customer.
C2_NoAttachOfAttached == ~dupAttach

Recognized == {"invoice.payment_succeeded", "payment_intent.succeeded", "charge.refunded"}

\* C3: a webhook whose recomputed signature does not match the header's, or
\* whose header is malformed, whatever its event type, is Rejected with a
\* client error: it is never Verified, no branch of the switch runs and
\* {received: true} is never returned.
C3_MismatchIsRejected ==
    (wpc # "idle" /\ ~SignatureMatches(wreq[1].rawBody, wreq[1].sig, wsecret))
    => /\ wpc \in {"unverified", "rejected"}
       /\ wlog = <<>>
       /\ wevent = None
       /\ wout.body # "received"
       /\ (wpc = "rejected" => wout.status = 400)

C3_RejectedRecognizedType ==
    /\ wpc = "rejected"
    /\ wreq[1].rawBody = "charge.refunded"
    /\ wreq[1].sig.wellFormed
    /\ wsecret # None
    /\ wreq[1].sig.v1 # ComputeSignature(wsecret, wreq[1].sig.t, wreq[1].rawBody)
    /\ wout.status = 400

\* C4: a webhook with a valid signature (matching, inside the tolerance)
\* whose event type is not a recognized one reaches Verified, invokes none
\* of the named handlers, and is acknowledged with {received: true}.
C4_UnknownTypeIsAcknowledged ==
    (/\ wpc # "idle"
     /\ wsecret # None
     /\ SignatureMatches(wreq[1].rawBody, wreq[1].sig, wsecret)
     /\ wreq[1].sig.t = "fresh"
     /\ wreq[1].rawBody \notin Recognized)
    => /\ wpc \in {"unverified", "verified", "acked"}
       /\ \A i \in 1..Len(wlog) : wlog[i] \notin HandlerLogs
       /\ (wpc = "acked" => wout = [status |-> 200, body |-> "received"])

C4_AckedUnknownType ==
    /\ wpc = "acked"
    /\ wevent = "customer.created"
    /\ wlog = <<LogUnhandled>>
    /\ wout.body = "received"

DeclineCodes == {"authentication_required", "card_declined"}

\* C5: chargeCustomer fails with PaymentDeclinedError, which is not the
\* generic GatewayError, exactly when the platform's charge call fails with
\* code authentication_required or card_declined; every other platform
\* failure yields GatewayError.
C5_DeclinedExactlyOnDeclineCodes ==
    (cpc = "done" /\ cout.status = "error")
    => /\ ErrorClass(cout.message) = "PaymentDeclinedError"
            <=> (cerr.api = "create" /\ cerr.code \in DeclineCodes)
       /\ (cerr.api \in {"list", "create"}
           /\ ~(cerr.api = "create" /\ cerr.code \in DeclineCodes))
            => ErrorClass(cout.message) = "GatewayError"

C5_AuthenticationRequired ==
    /\ cpc = "done"
    /\ cerr = [api |-> "create", code |-> "authentication_required"]
    /\ ErrorClass(cout.message) = "PaymentDeclinedError"

\* C6: with no attached card chargeCustomer fails with
\* ValidationError("no instrument"), distinct from GatewayError and
\* PaymentDeclinedError, and issues no charge-creation call; with an
\* instrument and an accepted charge it returns the created charge's id.
C6_NoInstrumentIsValidationError ==
    cpc = "done"
    => /\ (cards[cargs[1]] = {} /\ cerr.api = "service")
            => /\ cout.status = "error"
               /\ ErrorClass(cout.message) = "ValidationError"
               /\ "create" \notin Range(ccalls)
       /\ cout.status = "ok"
            => \E i \in 1..Len(intents) :
                 /\ intents[i].id = cout.paymentIntentId
                 /\ intents[i].customer = cargs[1]

\* the cents of the charges of c created within [startDate, endDate] that
\* are paid and not refunded
RECURSIVE PaidUnrefundedCents(_, _, _)
PaidUnrefundedCents(c, args, n) ==
    IF n = 0 THEN 0
    ELSE PaidUnrefundedCents(c, args, n - 1)
         + (IF /\ args.startDate <= c[n].created
               /\ c[n].created <= args.endDate
               /\ c[n].paid
               /\ ~c[n].refunded
            THEN c[n].amount ELSE 0)

\* C7: getTotalRevenue returns exactly (the sum of amount over the
\* transactions created within [startDate, endDate] that are paid and not
\* refunded) divided by 100, whatever the pages; the sum is kept in cents
\* during the traversal and divided once, after it.
C7_RevenueIsExactSum ==
    (gop = "getTotalRevenue" /\ gpc = "done")
    => /\ totalAmount = PaidUnrefundedCents(coll, gargs, Len(coll))
       /\ gout.status = "ok"
       /\ gout.value.hundredths \in 0..99
       /\ 100 * gout.value.euros + gout.value.hundredths
            = PaidUnrefundedCents(coll, gargs, Len(coll))

C7_RevenueOverPages ==
    /\ gop = "getTotalRevenue"
    /\ gpc = "done"
    /\ Len(pages) >= 2
    /\ gout.value = [euros |-> 21, hundredths |-> 49]
    /\ \E i \in 1..Len(coll) : coll[i].refunded

RECURSIVE Concat(_)
Concat(ps) == IF ps = <<>> THEN <<>> ELSE Head(ps).data \o Concat(Tail(ps))

\* C8: the pagination loops request page k+1 only after page k has arrived,
\* with the id of the last item of page k as cursor, continue exactly while
\* the platform reports more pages, stop once a page reports none, and fold
\* every item of the collection exactly once.
C8_PagesInSequence ==
    /\ inflight \in {0, 1}
    /\ Len(requests) = Len(pages) + inflight + (IF gpc = "failed" THEN 1 ELSE 0)
    /\ (gpc = "await") = (inflight = 1)
    /\ requests # <<>> => requests[1] = 0
    /\ \A k \in 2..Len(requests) :
         /\ pages[k - 1].has_more
         /\ requests[k] = pages[k - 1].data[Len(pages[k - 1].data)]
    /\ \A k \in 1..Len(pages) :
         pages[k].has_more =>
            \/ k < Len(requests)
            \/ (k = Len(pages) /\ gpc = "request")
    /\ gpc \in {"return", "done"}
         => /\ pages # <<>>
            /\ ~pages[Len(pages)].has_more
            /\ Concat(pages) = Listed(gop, coll, gargs)
    /\ (gpc = "done" /\ gop = "getCustomerStats")
         => gout.total = Len(coll) /\ allCustomers = [i \in 1..Len(coll) |-> i]
    /\ (gpc = "done" /\ gop = "getActiveSubscribers")
         => gout.value = Cardinality({i \in 1..Len(coll) : coll[i].status = "active"})

C8_ThreePagesWalked ==
    /\ gop = "getCustomerStats"
    /\ gpc = "done"
    /\ Len(pages) = 3
    /\ requests = <<0, 1, 2>>
    /\ gout.total = 3

\* C9: createSubscription sends a trial end iff startDate is supplied and
\* strictly after the current time, and then it is floor(startDate ms /
\* 1000); otherwise the request carries no trial end and is not an error.
C9_TrialEndIffFuture ==
    spc # "idle"
    => /\ sparams.trial_end.present
            <=> (sargs.startDate.kind = "date" /\ sargs.startDate.ms > snow)
       /\ sparams.trial_end.present
            => /\ 1000 * sparams.trial_end.unixTs <= sargs.startDate.ms
               /\ sargs.startDate.ms < 1000 * (sparams.trial_end.unixTs + 1)
       /\ spc = "done" => (sout.status = "error" <=> splatform = "rejected")
       /\ spc = "done" => (sout.status = "ok" <=> splatform = "accepted")

C9_FutureStartDate ==
    /\ spc = "done"
    /\ sargs.startDate = [kind |-> "date", ms |-> 2999]
    /\ snow = 2000
    /\ sparams.trial_end = [present |-> TRUE, unixTs |-> 2]
    /\ sout.status = "ok"

\* C10: getPaymentStats never divides by zero: on an empty collection it
\* returns successRate = 0, refundRate = 0, averageValue = 0, byMethod = [],
\* and whenever no attempt is successful averageValue is 0 and byMethod is
\* empty.
C10_NoDivisionByZero ==
    (ppc = "done")
    => /\ IsFinite(pout.successRate)
       /\ IsFinite(pout.refundRate)
       /\ IsFinite(pout.averageValue)
       /\ \A k \in 1..Len(pout.byMethod) : IsFinite(pout.byMethod[k].value)
       /\ payments = <<>>
            => /\ pout.successRate = Num(0)
               /\ pout.refundRate = Num(0)
               /\ pout.averageValue = Num(0)
               /\ pout.byMethod = <<>>
       /\ (\A i \in 1..Len(payments) : payments[i].status # "succeeded")
            => /\ pout.averageValue = Num(0)
               /\ pout.byMethod = <<>>

C10_EmptyCollection ==
    /\ ppc = "done"
    /\ payments = <<>>
    /\ pout.status = "ok"
    /\ pout.successRate = Num(0)

C10_NoneSuccessful ==
    /\ ppc = "done"
    /\ Len(payments) = 2
    /\ \A i \in 1..Len(payments) : payments[i].status # "succeeded"
    /\ pout.averageValue = Num(0)

\* C11: for every page of at most 100 payment attempts, getPaymentStats
\* returns successRate = successful/total*100, refundRate = (attempts,
\* successful or not, with at least one refunded or partially refunded
\* charge)/total*100, averageValue = the mean amount received over the
\* successful attempts only, and byMethod with one entry per first
\* payment-method type of the successful attempts ('unknown' standing for an
\* attempt that declares none), whose counts sum to the number of successful
\* attempts and whose values sum to their total amount received.
SucceededAttempts == {i \in 1..Len(payments) : payments[i].status = "succeeded"}

RefundedAttempts ==
    {i \in 1..Len(payments) :
        \E k \in 1..Len(chargesOf[i]) :
            chargesOf[i][k].refunded \/ chargesOf[i][k].amount_refunded > 0}

RECURSIVE ReceivedCents(_)
ReceivedCents(n) ==
    IF n = 0 THEN 0
    ELSE ReceivedCents(n - 1)
         + (IF n \in SucceededAttempts THEN payments[n].amount_received ELSE 0)

FirstTypes ==
    {IF payments[i].payment_method_types = <<>> THEN "unknown"
     ELSE Head(payments[i].payment_method_types) : i \in SucceededAttempts}

RECURSIVE SumCounts(_)
SumCounts(bm) == IF bm = <<>> THEN 0 ELSE Head(bm).count + SumCounts(Tail(bm))

RECURSIVE SumValues(_)
SumValues(bm) == IF bm = <<>> THEN Num(0) ELSE Plus(Head(bm).value, SumValues(Tail(bm)))

C11_StatsAreTheStatedRatios ==
    (ppc = "done")
    => LET total == Len(payments)
           nSucc == Cardinality(SucceededAttempts)
       IN /\ pout.status = "ok"
          /\ total > 0 => /\ pout.successRate = Frac(100 * nSucc, total)
                          /\ pout.refundRate
                               = Frac(100 * Cardinality(RefundedAttempts), total)
          /\ nSucc > 0 => pout.averageValue = Frac(ReceivedCents(total), 100 * nSucc)
          /\ {pout.byMethod[k].method : k \in 1..Len(pout.byMethod)} = FirstTypes
          /\ Len(pout.byMethod) = Cardinality(FirstTypes)
          /\ SumCounts(pout.byMethod) = nSucc
          /\ SumValues(pout.byMethod) = Frac(ReceivedCents(total), 100)

\* two successful attempts of different methods and amounts, one of them
\* partially refunded
C11_TwoMethodsOneRefund ==
    /\ ppc = "done"
    /\ Len(payments) = 2
    /\ Cardinality(SucceededAttempts) = 2
    /\ Len(pout.byMethod) = 2
    /\ Cardinality(RefundedAttempts) = 1
    /\ \E i \in RefundedAttempts : \A k \in 1..Len(chargesOf[i]) : ~chargesOf[i][k].refunded
    /\ pout.refundRate = Num(50)
    /\ pout.averageValue # Num(0)

NotReady == [isValid |-> FALSE, isEnabled |-> FALSE, needsIdCard |-> FALSE]

StatusOf(out) ==
    [isValid |-> out.isValid, isEnabled |-> out.isEnabled, needsIdCard |-> out.needsIdCard]

\* C12: getStripeAccountStatus never raises: whenever the retrieval fails,
\* for a nonexistent account included, it returns {isValid: false,
\* isEnabled: false, needsIdCard: false}, the value it also returns for an
\* existing account that has submitted nothing, is not enabled and owes no
\* document.
C12_FailureReadsAsNotReady ==
    (kpc = "done")
    => /\ kout.status = "ok"
       /\ (kerr # None) => StatusOf(kout) = NotReady
       /\ (kid = "acct_missing") => (kerr # None /\ StatusOf(kout) = NotReady)
       /\ (kerr = None /\ ~account.details_submitted /\ ~account.charges_enabled
           /\ ~account.requirements.present)
            => StatusOf(kout) = NotReady

C12_MissingAccount ==
    /\ kpc = "done"
    /\ kid = "acct_missing"
    /\ kerr = "resource_missing"
    /\ kout.status = "ok"
    /\ StatusOf(kout) = NotReady

\* C13: transferToConnectedAccount never propagates a platform failure: on
\* failure it returns a transfer carrying the requested amount and
\* destination and the id 'mock_transfer', which no transfer of the
\* platform carries; a result with another id is returned only when
\* transfers.create succeeded, and is that transfer.
C13_FailureYieldsSentinel ==
    /\ \A n \in 1..Len(transfers) : TransferId(n) # MockTransferId
    /\ (tpc = "done")
       => /\ tout.status = "ok"
          /\ tout.amount = targs.amountInCents
          /\ tout.destination = targs.stripeAccountId
          /\ (terr # None) <=> (tout.id = MockTransferId)
          /\ (tout.id # MockTransferId)
               => /\ tout.id = TransferId(Len(transfers))
                  /\ transfers[Len(transfers)]
                       = [amount |-> targs.amountInCents,
                          destination |-> targs.stripeAccountId]

\* a failed transfer after a real one
C13_MockAfterRealTransfer ==
    /\ tpc = "done"
    /\ Len(transfers) = 1
    /\ terr = "balance_insufficient"
    /\ tout.id = MockTransferId
    /\ tout.amount = 70000
    /\ tout.destination = "acct_1"

\* the request attached its instrument and then failed to set it as default
AttachedThenFailed(r) ==
    /\ apc[r] = "done"
    /\ acalls[r] = <<"list", "attach", "update">>
    /\ aout[r] # "success"

\* C14: in attachPaymentMethod, when paymentMethods.attach succeeds and the
\* customers.update that follows fails, the request reports an error and
\* the instrument stays attached to the customer without being the default
\* (unless another request for the same customer and instrument set it);
\* no detach is ever issued, and customers.update is called only after a
\* successful attach.
C14_AttachedButNotDefault ==
    \A r \in Reqs :
        /\ \A k \in 1..Len(acalls[r]) : acalls[r][k] \in {"list", "attach", "update"}
        /\ (apc[r] = "update" \/ "update" \in Range(acalls[r]))
             => /\ SubSeq(acalls[r], 1, 2) = <<"list", "attach">>
                /\ aargs[r][2] \in cards[aargs[r][1]]
        /\ AttachedThenFailed(r)
             => /\ aout[r] = MsgAttachFailed
                /\ aargs[r][2] \in cards[aargs[r][1]]
                /\ (\A q \in Reqs \ {r} : aargs[q] = aargs[r] => aout[q] # "success")
                     => defaultPM[aargs[r][1]] # aargs[r][2]

\* a customer with another default card, left with a second card attached
C14_PartialFailure ==
    \E r \in Reqs :
        /\ AttachedThenFailed(r)
        /\ athrown[r] = "platform"
        /\ aargs[r] = <<"cus_A", "pm_2">>
        /\ cards["cus_A"] = {"pm_1", "pm_2"}
        /\ defaultPM["cus_A"] = "pm_1"
        /\ \A q \in Reqs \ {r} : apc[q] = "idle"

\* a required parameter that the body does not carry
AbsentStr(x) == x = None \/ x = ""
AbsentParameter(req) ==
    \/ AbsentStr(req.body.customerId)
    \/ ~req.body.amount.given
    \/ AbsentStr(req.body.currency)
    \/ (req.handler = "service" /\ AbsentStr(req.body.providerAccountId))
    \/ (req.handler = "service" /\ AbsentStr(req.body.serviceId))
    \/ (req.handler = "delivery" /\ AbsentStr(req.body.delivererAccountId))

CreateRequest(r) == epc[r] # "idle" /\ ereq[r].method = "POST"

\* C15: the create handlers (service booking and delivery) answer with the
\* client error 400, and issue no platform call, exactly when a required
\* parameter is missing; every supplied value, any integer amount of minor
\* units included, is accepted and sent to the platform, and the
\* PaymentIntent created is manual-capture, has the given connected account
\* as transfer destination and carries the business-purpose metadata tag.
C15_RejectedIffParameterMissing ==
    /\ CreateRequest(1)
         => /\ AbsentParameter(ereq[1]) <=> (epc[1] = "done" /\ eout[1].status = 400)
            /\ AbsentParameter(ereq[1]) <=> (ecalls[1] = <<>>)
    /\ \A n \in 1..Len(escrow) :
         /\ escrow[n].params.capture_method = "manual"
         /\ escrow[n].params.transfer_data.destination = "acct_1"
         /\ escrow[n].params.metadata.type \in {"service_booking", "delivery_payment"}

\* C16: the capture handler answers 200 only when paymentIntents.capture
\* succeeded for that PaymentIntent: no PaymentIntent is reported captured
\* twice, none before it was created, none that was canceled or expired; a
\* request without paymentIntentId is answered 400 without a platform call.
CaptureRequest(r) == epc[r] # "idle" /\ ereq[r].handler = "capture"
ReportedCaptured(r) == CaptureRequest(r) /\ epc[r] = "done" /\ eout[r].status = 200

C16_CapturedAtMostOnce ==
    \A r \in EReqs :
        /\ ReportedCaptured(r)
             => /\ ecalls[r] = <<"paymentIntents.capture">>
                /\ \E n \in 1..Len(escrow) :
                     /\ EscrowId(n) = ereq[r].body.paymentIntentId
                     /\ escrow[n].status = "succeeded"
                /\ \A q \in EReqs \ {r} :
                     ReportedCaptured(q)
                     => ereq[q].body.paymentIntentId # ereq[r].body.paymentIntentId
        /\ (CaptureRequest(r) /\ ereq[r].method = "POST"
            /\ ereq[r].body.paymentIntentId = None)
             => /\ epc[r] = "done"
                /\ eout[r].status = 400
                /\ ecalls[r] = <<>>

\* a PaymentIntent created, captured by one request and refused to the next
C16_SecondCaptureRefused ==
    \E r, q \in EReqs :
        /\ ReportedCaptured(r)
        /\ CaptureRequest(q) /\ epc[q] = "done" /\ eout[q].status = 500
        /\ r < q
        /\ ereq[q].body.paymentIntentId = ereq[r].body.paymentIntentId
        /\ ecalls[q] = <<"paymentIntents.capture">>
        /\ escrow[1].status = "succeeded"

\* C17: no operation retries.  Within one invocation the remote calls are
\* issued one after the other: no call is issued twice, at most one call is
\* without an answer, and a call that failed is the last one the invocation
\* issued (attachPaymentMethod, chargeCustomer, createPriceForPlan, the
\* pagination loops and the charges.list lookups of getPaymentStats).
C17_NoRetryOneCallAtATime ==
    \A r \in Reqs :
        /\ \A i \in 1..(Len(rlog[r]) - 1) : rlog[r][i].result = "ok"
        /\ \A i, j \in 1..Len(rlog[r]) :
             (i # j) => <<rlog[r][i].call, rlog[r][i].arg>> # <<rlog[r][j].call, rlog[r][j].arg>>

\* the second charges.list lookup of getPaymentStats failed
C17_LookupFailed ==
    /\ ppc = "failed"
    /\ Len(rlog[1]) = 3
    /\ rlog[1][3] = [call |-> "charges.list", arg |-> 2, result |-> "failed"]

\* C18: in the pagination loops the next cursor is defined whenever another
\* page is requested: for every page the platform can return, a page
\* without items that reports more pages included, the loop computes the
\* cursor without failing and never requests the first page again.
C18_CursorAlwaysDefined ==
    /\ gout.status # "TypeError"
    /\ \A i \in 2..Len(requests) : requests[i] # 0
    /\ (gpc = "request" /\ pages # <<>>) => startingAfter # 0

\* a loop that walked two pages to the end
C18_TwoPagesWalked ==
    /\ gpc = "done"
    /\ Len(pages) = 2
    /\ requests[2] # 0

====
